---- MODULE Spec2Model ----
(***************************************************************************)
(* Express-Jobly: the request authorization chain (middleware/auth.js),    *)
(* the jobs and companies routes that declare gate chains, the Job model   *)
(* and the partial-update helper (helpers/sql.js).                         *)
(*                                                                         *)
(* JavaScript values are written as strings: "undefined" is a missing      *)
(* field, "true"/"false" the booleans, "one" a truthy non-boolean,         *)
(* "zero" a falsy non-boolean.                                             *)
(***************************************************************************)
EXTENDS Integers, Sequences, FiniteSets, TLC

VARIABLES
    req,        \* the request being handled
    locals,     \* res.locals of that request ("user" is the identity slot)
    pc,         \* position of the request in its pipeline (0 = none in flight)
    ran,        \* the stages that have run for the request, in order
    nextArg,    \* argument of the last next(...) call ("none" = next())
    raised,     \* error that escaped the last stage uncaught ("none" = nothing)
    status,     \* HTTP status of the response (0 = no response yet)
    jobs,       \* rows of table jobs, by id
    nextId,     \* next value of the jobs.id serial
    companies,  \* rows of table companies, by handle
    call,       \* a direct call of a helper or model function: its arguments
    ret         \* what that call returned or threw

vars ==
    <<req, locals, pc, ran, nextArg, raised, status, jobs, nextId, companies,
      call, ret>>

(***************************************************************************)
(* JavaScript values                                                       *)
(***************************************************************************)
Undefined == "undefined"

\* ToBoolean of the encoded values
Truthy(v) == v \notin {"undefined", "false", "zero", "", "null"}

SECRET_KEY == "secret-dev"

UsernameValues == {"u1", "u2", Undefined}
IsAdminValues == {"true", "false", Undefined, "one", "zero"}
KeyValues == {SECRET_KEY, "wrong"}

\* A signed token: its payload (username, isAdmin), the key it was signed
\* with, whether it is past its exp, and whether it is well-formed at all.
WellFormedTokens ==
    [username : UsernameValues, isAdmin : IsAdminValues, key : KeyValues,
     expired : BOOLEAN, wellFormed : {TRUE}]

MalformedToken ==
    [username |-> Undefined, isAdmin |-> Undefined, key |-> "wrong",
     expired |-> FALSE, wellFormed |-> FALSE]

Tokens == WellFormedTokens \cup {MalformedToken}

\* Scheme words a client may put in front of the token ("" = bare token).
Schemes == {"Bearer ", "bearer ", "BEARER ", ""}

\* req.headers.authorization: undefined, the empty string, or scheme + token
NoHeader == [kind |-> "undefined", scheme |-> "", token |-> MalformedToken]
EmptyHeader == [kind |-> "empty", scheme |-> "", token |-> MalformedToken]
Headers ==
    {NoHeader, EmptyHeader} \cup [kind : {"value"}, scheme : Schemes, token : Tokens]

\* res.locals = {} and res.locals = { user: payload }
EmptyLocals == [k \in {} |-> Undefined]
LocalsWith(payload) == [k \in {"user"} |-> payload]
HasUser(l) == "user" \in DOMAIN l

\* the payload jwt.verify decodes from a token
Payload(token) == [username |-> token.username, isAdmin |-> token.isAdmin]

(***************************************************************************)
(* middleware/auth.js                                                      *)
(***************************************************************************)

\* authHeader.replace(/^[Bb]earer /, "").trim(): the string handed to
\* jwt.verify, as the prefix left in front of the token and the token.
StripBearer(authHeader) ==
    [prefix |-> IF authHeader.scheme \in {"Bearer ", "bearer "}
                THEN "" ELSE authHeader.scheme,
     token |-> authHeader.token]

\* jwt.verify(token, key) returns the payload; it throws otherwise.
jwtVerifies(str, key) ==
    /\ str.prefix = ""
    /\ str.token.wellFormed
    /\ str.token.key = key
    /\ ~str.token.expired

\* A middleware call yields the new res.locals, the argument it gave to
\* next ("none" for next()), and the error that escaped it, if any.
Outcome(l, arg, err) == [locals |-> l, nextArg |-> arg, raised |-> err]

\* the catch hands the verification error to next
authenticateJWT_NextErr(r, l) ==
    IF r.header.kind = "value"
    THEN LET token == StripBearer(r.header)
         IN  IF jwtVerifies(token, SECRET_KEY)
             THEN Outcome(LocalsWith(Payload(token.token)), "none", "none")
             ELSE Outcome(l, "JsonWebTokenError", "none")
    ELSE Outcome(l, "none", "none")

\* the payload is decoded without checking the signature or the expiry
authenticateJWT_Decode(r, l) ==
    IF r.header.kind = "value"
    THEN LET token == StripBearer(r.header)
         IN  IF token.prefix = "" /\ token.token.wellFormed
             THEN Outcome(LocalsWith(Payload(token.token)), "none", "none")
             ELSE Outcome(l, "none", "none")
    ELSE Outcome(l, "none", "none")

authenticateJWT(r, l) ==
    IF r.header.kind = "value"
    THEN LET token == StripBearer(r.header)
         IN  IF jwtVerifies(token, SECRET_KEY)
             THEN Outcome(LocalsWith(Payload(token.token)), "none", "none")
             ELSE Outcome(l, "none", "none")
    ELSE Outcome(l, "none", "none")

\* the check of res.locals.user is dropped
ensureLoggedIn_NoCheck(r, l) == Outcome(l, "none", "none")

ensureLoggedIn(r, l) ==
    IF ~HasUser(l)
    THEN Outcome(l, "UnauthorizedError", "none")
    ELSE Outcome(l, "none", "none")

\* the check of isAdmin is dropped: any populated slot passes
ensureAdmin_NoCheck(r, l) ==
    IF ~HasUser(l)
    THEN Outcome(l, "TypeError", "none")
    ELSE Outcome(l, "none", "none")

\* res.locals.user.isAdmin on an undefined user throws a TypeError, which
\* the catch hands to next.
ensureAdmin(r, l) ==
    IF ~HasUser(l)
    THEN Outcome(l, "TypeError", "none")
    ELSE IF ~Truthy(l.user.isAdmin)
         THEN Outcome(l, "UnauthorizedError", "none")
         ELSE Outcome(l, "none", "none")

\* || in place of &&: an owner who is no admin is turned away
ensureAdminOrUser_Or(r, l) ==
    IF ~HasUser(l)
    THEN Outcome(l, "TypeError", "none")
    ELSE IF ~Truthy(l.user.isAdmin) \/ r.username # l.user.username
         THEN Outcome(l, "UnauthorizedError", "none")
         ELSE Outcome(l, "none", "none")

ensureAdminOrUser(r, l) ==
    IF ~HasUser(l)
    THEN Outcome(l, "TypeError", "none")
    ELSE IF ~Truthy(l.user.isAdmin) /\ r.username # l.user.username
         THEN Outcome(l, "UnauthorizedError", "none")
         ELSE Outcome(l, "none", "none")

Gate(name, r, l) ==
    CASE name = "authenticateJWT" -> authenticateJWT(r, l)
      [] name = "ensureLoggedIn" -> ensureLoggedIn(r, l)
      [] name = "ensureAdmin" -> ensureAdmin(r, l)
      [] name = "ensureAdminOrUser" -> ensureAdminOrUser(r, l)

(***************************************************************************)
(* helpers/sql.js                                                          *)
(***************************************************************************)

\* An object is the sequence of its own keys in insertion order, each with
\* its value: <<[key |-> "title", value |-> <<"J", "1">>], ...>>. A string
\* whose characters matter (a title) is the sequence of its characters.
\* setCols is kept as the sequence of its fragments '"col"=$n', the join
\* with ", " left implicit.
\* properties every plain object inherits from Object.prototype; in a
\* template string such a function prints as its source text
ObjectPrototype ==
    [k \in {"toString", "constructor"} |->
        IF k = "toString"
        THEN "function toString() { [native code] }"
        ELSE "function Object() { [native code] }"]

\* obj[key]: an own property, else an inherited one, else undefined
JsGet(obj, key) ==
    IF key \in DOMAIN obj THEN obj[key]
    ELSE IF key \in DOMAIN ObjectPrototype THEN ObjectPrototype[key]
    ELSE Undefined

\* jsToSql[colName] || colName
ColumnName(jsToSql, colName) ==
    IF Truthy(JsGet(jsToSql, colName)) THEN JsGet(jsToSql, colName) ELSE colName

\* the fragment '"col"=$n'
Fragment(col, n) == [col |-> col, placeholder |-> n]

\* the guard on an empty object is dropped
sqlForPartialUpdate_NoGuard(dataToUpdate, jsToSql) ==
    [error |-> "none", message |-> "",
     setCols |-> [idx \in 1..Len(dataToUpdate) |->
                     Fragment(ColumnName(jsToSql, dataToUpdate[idx].key), idx)],
     values |-> [idx \in 1..Len(dataToUpdate) |-> dataToUpdate[idx].value]]

\* $idx in place of $idx + 1: the placeholders start at 0
sqlForPartialUpdate_ZeroBased(dataToUpdate, jsToSql) ==
    IF Len(dataToUpdate) = 0
    THEN [error |-> "BadRequestError", message |-> "No data",
          setCols |-> <<>>, values |-> <<>>]
    ELSE [error |-> "none", message |-> "",
          setCols |->
              [idx \in 1..Len(dataToUpdate) |->
                  Fragment(ColumnName(jsToSql, dataToUpdate[idx].key), idx - 1)],
          values |-> [idx \in 1..Len(dataToUpdate) |-> dataToUpdate[idx].value]]

\* the value is written into the fragment in place of its placeholder
sqlForPartialUpdate_Inline(dataToUpdate, jsToSql) ==
    IF Len(dataToUpdate) = 0
    THEN [error |-> "BadRequestError", message |-> "No data",
          setCols |-> <<>>, values |-> <<>>]
    ELSE [error |-> "none", message |-> "",
          setCols |->
              [idx \in 1..Len(dataToUpdate) |->
                  Fragment(ColumnName(jsToSql, dataToUpdate[idx].key),
                           dataToUpdate[idx].value)],
          values |-> [idx \in 1..Len(dataToUpdate) |-> dataToUpdate[idx].value]]

sqlForPartialUpdate(dataToUpdate, jsToSql) ==
    IF Len(dataToUpdate) = 0
    THEN [error |-> "BadRequestError", message |-> "No data",
          setCols |-> <<>>, values |-> <<>>]
    ELSE [error |-> "none", message |-> "",
          setCols |->
              [idx \in 1..Len(dataToUpdate) |->
                  Fragment(ColumnName(jsToSql, dataToUpdate[idx].key), idx)],
          values |-> [idx \in 1..Len(dataToUpdate) |-> dataToUpdate[idx].value]]

(***************************************************************************)
(* models/job.js, on the tables jobs and companies                         *)
(***************************************************************************)

\* String(equity) for the equities in use, written in tenths
StringOfEquity(tenths) ==
    CASE tenths = 0 -> "0"
      [] tenths = 10 -> "1"
      [] OTHER -> "0." \o ToString(tenths)

JobJsToSql == [k \in {"companyHandle"} |-> "company_handle"]

\* the WHERE clause is dropped: every row is assigned
DbUpdate_NoWhere(rows, setCols, whereIdx, params) ==
    LET key == params[whereIdx]
        Assigned(row) ==
            [c \in DOMAIN row |->
                IF \E i \in 1..Len(setCols) : setCols[i].col = c
                THEN LET i == CHOOSE j \in 1..Len(setCols) : setCols[j].col = c
                     IN  params[setCols[i].placeholder]
                ELSE row[c]]
    IN  [rows |-> [k \in DOMAIN rows |-> Assigned(rows[k])],
         count |-> IF key \in DOMAIN rows THEN 1 ELSE 0]

\* UPDATE t SET <setCols> WHERE <key column> = $whereIdx, with params: the
\* rows after the statement and the number of rows it returned.
DbUpdate(rows, setCols, whereIdx, params) ==
    LET key == params[whereIdx]
        Assigned(row) ==
            [c \in DOMAIN row |->
                IF \E i \in 1..Len(setCols) : setCols[i].col = c
                THEN LET i == CHOOSE j \in 1..Len(setCols) : setCols[j].col = c
                     IN  params[setCols[i].placeholder]
                ELSE row[c]]
    IN  IF key \in DOMAIN rows
        THEN [rows |-> [rows EXCEPT ![key] = Assigned(rows[key])], count |-> 1]
        ELSE [rows |-> rows, count |-> 0]

\* DELETE FROM t WHERE <key column> = $1
DbDelete(rows, key) ==
    IF key \in DOMAIN rows
    THEN [rows |-> [k \in DOMAIN rows \ {key} |-> rows[k]], count |-> 1]
    ELSE [rows |-> rows, count |-> 0]

\* Job.create awaits two statements, and other requests' statements can
\* reach the database between them. The first: SELECT handle FROM companies
\* WHERE handle = $1; no row is a BadRequestError.
JobCreateSelect(store, body) ==
    IF body.companyHandle \in DOMAIN store.companies
    THEN "none"
    ELSE "BadRequestError"

\* The second: INSERT INTO jobs ..., on the tables as they are by then. The
\* row gets the next serial id. When the company is gone the foreign key of
\* jobs.company_handle refuses the row and the database's error leaves
\* Job.create; whether the refused INSERT has used up a serial id is up to
\* the database. The outcomes the statement can have:
JobCreateInsert(store, body) ==
    IF body.companyHandle \in DOMAIN store.companies
    THEN LET row == [id |-> store.nextId,
                     title |-> body.title,
                     salary |-> body.salary,
                     equity |-> StringOfEquity(body.equity),
                     company_handle |-> body.companyHandle]
         IN  {[error |-> "none",
               jobs |-> [k \in DOMAIN store.jobs \cup {store.nextId} |->
                            IF k = store.nextId THEN row ELSE store.jobs[k]],
               nextId |-> store.nextId + 1]}
    ELSE {[error |-> "DatabaseError", jobs |-> store.jobs, nextId |-> n] :
             n \in {store.nextId, store.nextId + 1}}

\* Job.get
JobGet(store, id) ==
    IF id \in DOMAIN store.jobs THEN "none" ELSE "NotFoundError"

\* UPDATE jobs SET <setCols> WHERE id = $whereIdx, as sent with its parameters
Statement(setCols, whereIdx, params) ==
    [setCols |-> setCols, whereIdx |-> whereIdx, params |-> params]

\* the statement is built and sent whatever sqlForPartialUpdate answers
JobUpdate_SendAnyway(store, id, data) ==
    LET q == sqlForPartialUpdate(data, JobJsToSql)
        handleVarIdx == Len(q.values) + 1
        result == DbUpdate(store.jobs, q.setCols, handleVarIdx, q.values \o <<id>>)
    IN  [error |-> IF q.error # "none" THEN q.error
                   ELSE IF result.count = 0 THEN "NotFoundError" ELSE "none",
         jobs |-> result.rows,
         sent |-> <<Statement(q.setCols, handleVarIdx, q.values \o <<id>>)>>]

\* "$" + values.length in place of "$" + (values.length + 1): the id
\* placeholder is the last SET placeholder
JobUpdate_IdAtLast(store, id, data) ==
    LET q == sqlForPartialUpdate(data, JobJsToSql)
    IN  IF q.error # "none"
        THEN [error |-> q.error, jobs |-> store.jobs, sent |-> <<>>]
        ELSE LET handleVarIdx == Len(q.values)
                 result == DbUpdate(store.jobs, q.setCols, Len(q.values) + 1,
                                    q.values \o <<id>>)
             IN  [error |-> IF result.count = 0 THEN "NotFoundError" ELSE "none",
                  jobs |-> result.rows,
                  sent |-> <<Statement(q.setCols, handleVarIdx,
                                       q.values \o <<id>>)>>]

\* Job.update: the rows after the call and the statements it sent
JobUpdate(store, id, data) ==
    LET q == sqlForPartialUpdate(data, JobJsToSql)
    IN  IF q.error # "none"
        THEN [error |-> q.error, jobs |-> store.jobs, sent |-> <<>>]
        ELSE LET handleVarIdx == Len(q.values) + 1
                 result == DbUpdate(store.jobs, q.setCols, handleVarIdx,
                                    q.values \o <<id>>)
             IN  [error |-> IF result.count = 0 THEN "NotFoundError" ELSE "none",
                  jobs |-> result.rows,
                  sent |-> <<Statement(q.setCols, handleVarIdx,
                                       q.values \o <<id>>)>>]

\* Job.remove
JobRemove(store, id) ==
    LET result == DbDelete(store.jobs, id)
    IN  [error |-> IF result.count = 0 THEN "NotFoundError" ELSE "none",
         jobs |-> result.rows]

\* SQL NULL in the integer column salary (and null for salary in a data
\* object), written as a number no stored salary is: salaries are >= 0.
NullSalary == -1

\* null in the numeric column equity, which the driver returns as a string
NullEquity == "null"

\* the row as the statements return it: company_handle AS "companyHandle"
JobOf(row) ==
    [id |-> row.id, title |-> row.title, salary |-> row.salary,
     equity |-> row.equity, companyHandle |-> row.company_handle]

\* the code unit of a character, for the characters in use
CodeUnit(ch) ==
    CASE ch = "1" -> 49
      [] ch = "2" -> 50
      [] ch = "A" -> 65
      [] ch = "J" -> 74
      [] ch = "a" -> 97
      [] ch = "j" -> 106
      [] ch = "x" -> 120

RECURSIVE TitleLess(_, _)
\* ORDER BY title: a sorts strictly before b
TitleLess(a, b) ==
    IF Len(b) = 0 THEN FALSE
    ELSE IF Len(a) = 0 THEN TRUE
    ELSE IF CodeUnit(Head(a)) # CodeUnit(Head(b))
         THEN CodeUnit(Head(a)) < CodeUnit(Head(b))
         ELSE TitleLess(Tail(a), Tail(b))

\* Job.findAll: every job, ordered by title; rows of equal title come in
\* whatever order the database gives them, so the result is one of a set.
JobFindAll(store) ==
    LET ids == DOMAIN store.jobs
        n == Cardinality(ids)
        Orders == {s \in [1..n -> ids] :
                      /\ \A i, j \in 1..n : s[i] = s[j] => i = j
                      /\ \A i, j \in 1..n :
                             i < j => ~TitleLess(store.jobs[s[j]].title,
                                                 store.jobs[s[i]].title)}
    IN  {[i \in 1..n |-> JobOf(store.jobs[s[i]])] : s \in Orders}

\* String.prototype.toLowerCase
LowerChar(ch) ==
    CASE ch = "A" -> "a"
      [] ch = "J" -> "j"
      [] OTHER -> ch

toLowerCase(str) == [i \in 1..Len(str) |-> LowerChar(str[i])]

\* String.prototype.includes
includes(str, sub) ==
    \E i \in 0..(Len(str) - Len(sub)) : SubSeq(str, i + 1, i + Len(sub)) = sub

\* Number(v) for a salary: Number(null) is 0
NumberOfSalary(v) == IF v = NullSalary THEN 0 ELSE v

\* Number(v) for an equity string, in tenths: Number(null) is 0
NumberOfEquity(v) ==
    CASE v = NullEquity -> 0
      [] v = "0" -> 0
      [] v = "0.5" -> 5
      [] v = "0.9" -> 9
      [] v = "1" -> 10

\* the two toLowerCase calls are dropped
TitleMatches_CaseSensitive(job, title) == includes(job.title, title)

\* job.title.toLowerCase().includes(title.toLowerCase())
TitleMatches(job, title) == includes(toLowerCase(job.title), toLowerCase(title))

\* > in place of >=
SalaryAtLeast_Strict(job, minSalary) == NumberOfSalary(job.salary) > minSalary

\* job.salary >= minSalary
SalaryAtLeast(job, minSalary) == NumberOfSalary(job.salary) >= minSalary

\* >= in place of >
HasPositiveEquity_NonNegative(job) == NumberOfEquity(job.equity) >= 0

\* Number(job.equity) > 0
HasPositiveEquity(job) == NumberOfEquity(job.equity) > 0

\* if (title), if (minSalary), if (hasEquity) on the destructured options
TitleGiven(options) == "title" \in DOMAIN options /\ Len(options.title) > 0
MinSalaryGiven(options) == "minSalary" \in DOMAIN options /\ options.minSalary # 0
HasEquityGiven(options) == "hasEquity" \in DOMAIN options /\ Truthy(options.hasEquity)

\* Array.prototype.filter with each of the three tests
FilterTitle(list, title) ==
    LET Test(job) == TitleMatches(job, title) IN SelectSeq(list, Test)

FilterSalary(list, minSalary) ==
    LET Test(job) == SalaryAtLeast(job, minSalary) IN SelectSeq(list, Test)

FilterEquity(list) == SelectSeq(list, HasPositiveEquity)

\* an empty result is returned, not thrown
JobFilterJobs_NoThrow(data, options) ==
    LET filter1 == IF TitleGiven(options) THEN FilterTitle(data, options.title) ELSE data
        filter2 == IF MinSalaryGiven(options)
                   THEN FilterSalary(filter1, options.minSalary) ELSE filter1
        results == IF HasEquityGiven(options) THEN FilterEquity(filter2) ELSE filter2
    IN  [error |-> "none", data |-> data, rows |-> results]

\* the salary filter reads data, not filter1: the title filter is lost
JobFilterJobs_FromData(data, options) ==
    LET filter1 == IF TitleGiven(options) THEN FilterTitle(data, options.title) ELSE data
        filter2 == IF MinSalaryGiven(options)
                   THEN FilterSalary(data, options.minSalary) ELSE filter1
        results == IF HasEquityGiven(options) THEN FilterEquity(filter2) ELSE filter2
    IN  IF Len(results) = 0
        THEN [error |-> "NotFoundError", data |-> data, rows |-> <<>>]
        ELSE [error |-> "none", data |-> data, rows |-> results]

\* the first job of the result is held back
JobFilterJobs_SkipFirst(data, options) ==
    LET filter1 == IF TitleGiven(options) THEN FilterTitle(data, options.title) ELSE data
        filter2 == IF MinSalaryGiven(options)
                   THEN FilterSalary(filter1, options.minSalary) ELSE filter1
        results == IF HasEquityGiven(options) THEN FilterEquity(filter2) ELSE filter2
    IN  IF Len(results) = 0
        THEN [error |-> "NotFoundError", data |-> data, rows |-> <<>>]
        ELSE [error |-> "none", data |-> data,
              rows |-> Tail(results)]

\* Job.filterJobs on data, the list Job.findAll gave it
JobFilterJobs(data, options) ==
    LET filter1 == IF TitleGiven(options) THEN FilterTitle(data, options.title) ELSE data
        filter2 == IF MinSalaryGiven(options)
                   THEN FilterSalary(filter1, options.minSalary) ELSE filter1
        results == IF HasEquityGiven(options) THEN FilterEquity(filter2) ELSE filter2
    IN  IF Len(results) = 0
        THEN [error |-> "NotFoundError", data |-> data, rows |-> <<>>]
        ELSE [error |-> "none", data |-> data, rows |-> results]

(***************************************************************************)
(* models/company.js                                                       *)
(***************************************************************************)
CompanyJsToSql ==
    [k \in {"numEmployees", "logoUrl"} |->
        IF k = "numEmployees" THEN "num_employees" ELSE "logo_url"]

\* Company.create: a handle already in use is a bad request
CompanyCreate(store, body) ==
    IF body.handle \in DOMAIN store.companies
    THEN [error |-> "BadRequestError", companies |-> store.companies]
    ELSE [error |-> "none",
          companies |-> [h \in DOMAIN store.companies \cup {body.handle} |->
                            IF h = body.handle
                            THEN [handle |-> body.handle, name |-> body.name]
                            ELSE store.companies[h]]]

\* Company.update
CompanyUpdate(store, handle, data) ==
    LET q == sqlForPartialUpdate(data, CompanyJsToSql)
    IN  IF q.error # "none"
        THEN [error |-> q.error, companies |-> store.companies]
        ELSE LET handleVarIdx == Len(q.values) + 1
                 result == DbUpdate(store.companies, q.setCols, handleVarIdx,
                                    q.values \o <<handle>>)
             IN  [error |-> IF result.count = 0 THEN "NotFoundError" ELSE "none",
                  companies |-> result.rows]

\* Company.remove; the jobs of the company go with it (the foreign key of
\* jobs.company_handle deletes them).
CompanyRemove(store, handle) ==
    LET result == DbDelete(store.companies, handle)
        kept == {k \in DOMAIN store.jobs : store.jobs[k].company_handle # handle}
    IN  [error |-> IF result.count = 0 THEN "NotFoundError" ELSE "none",
         companies |-> result.rows,
         jobs |-> [k \in kept |-> store.jobs[k]]]

(***************************************************************************)
(* The tables before any request: one company with one job.                *)
(***************************************************************************)
InitJobs ==
    [id \in {1} |->
        [id |-> 1, title |-> <<"j", "1">>, salary |-> 1, equity |-> "0.5",
         company_handle |-> "c1"]]

InitCompanies == [h \in {"c1"} |-> [handle |-> "c1", name |-> "C1"]]

Last(s) == s[Len(s)]

\* no helper or model function has been called directly
NoCall == [fn |-> "none"]
NoRet == [error |-> "none"]

(***************************************************************************)
(* The middleware called one at a time on a request, as middleware/        *)
(* auth.test.js calls them: authenticateJWT on a fresh res.locals, then    *)
(* one gate on the res.locals it left (or on the fresh one).               *)
(***************************************************************************)
AuthRequests == [header : Headers, username : {"u1", "u2"}]

InitAuth ==
    /\ req \in AuthRequests
    /\ locals = EmptyLocals
    /\ pc = 1
    /\ ran = <<>>
    /\ nextArg = "none"
    /\ raised = "none"
    /\ status = 0
    /\ jobs = InitJobs
    /\ nextId = 2
    /\ companies = InitCompanies
    /\ call = NoCall
    /\ ret = NoRet

Call(name, to) ==
    LET out == Gate(name, req, locals)
    IN  /\ locals' = out.locals
        /\ nextArg' = out.nextArg
        /\ raised' = out.raised
        /\ ran' = Append(ran, name)
        /\ pc' = to
        /\ UNCHANGED <<req, status, jobs, nextId, companies, call, ret>>

CallAuthenticateJWT == pc = 1 /\ Call("authenticateJWT", 2)

CallEnsureLoggedIn == pc \in {1, 2} /\ Call("ensureLoggedIn", 3)

CallEnsureAdmin == pc \in {1, 2} /\ Call("ensureAdmin", 3)

CallEnsureAdminOrUser == pc \in {1, 2} /\ Call("ensureAdminOrUser", 3)

NextAuth ==
    \/ CallAuthenticateJWT
    \/ CallEnsureLoggedIn
    \/ CallEnsureAdmin
    \/ CallEnsureAdminOrUser

SpecAuth == InitAuth /\ [][NextAuth]_vars

\* the stage that ran last, and what the request looked like to it
JustRan(name) == ran # <<>> /\ Last(ran) = name
Passed == nextArg = "none" /\ raised = "none"

(***************************************************************************)
(* routes/jobs.js and routes/companies.js behind the application's         *)
(* authenticateJWT: one request at a time goes through its pipeline, one   *)
(* stage per step.                                                         *)
(***************************************************************************)
MaxId == 2

JobRoutes == {"POST /jobs", "GET /jobs/:id", "PATCH /jobs/:id", "DELETE /jobs/:id"}
CompanyRoutes ==
    {"POST /companies", "PATCH /companies/:handle", "DELETE /companies/:handle"}
MutatingRoutes == (JobRoutes \ {"GET /jobs/:id"}) \cup CompanyRoutes

\* the gates each route declares in front of its handler
Chain(route) ==
    IF route \in MutatingRoutes
    THEN <<"ensureLoggedIn", "ensureAdmin">>
    ELSE <<>>

\* the application runs authenticateJWT before every route
Pipeline(route) == <<"authenticateJWT">> \o Chain(route) \o <<"handler">>

\* status the error handler answers with
StatusOf(err) ==
    CASE err = "UnauthorizedError" -> 401
      [] err = "BadRequestError" -> 400
      [] err = "NotFoundError" -> 404
      [] OTHER -> 500

\* credentials the requests carry
Credential(username, isAdmin, key) ==
    [kind |-> "value", scheme |-> "Bearer ",
     token |-> [username |-> username, isAdmin |-> isAdmin, key |-> key,
                expired |-> FALSE, wellFormed |-> TRUE]]

RouteHeaders ==
    {NoHeader,
     Credential("u2", "true", SECRET_KEY),
     Credential("u1", "false", SECRET_KEY),
     Credential("u1", Undefined, SECRET_KEY),
     Credential("u2", "true", "wrong")}

JobIds == 0..MaxId

NewJobs ==
    [title : {<<"n", "e", "w">>}, salary : {2}, equity : {0}, companyHandle : {"c1", "nope"}]

JobUpdates ==
    {<<>>,
     <<[key |-> "title", value |-> <<"J", "1">>]>>,
     <<[key |-> "salary", value |-> 2], [key |-> "title", value |-> <<"J", "1">>]>>}

NewCompanies == [handle : {"new"}, name : {"New"}]
CompanyHandles == {"c1", "new"}
CompanyUpdates == {<<>>, <<[key |-> "name", value |-> "C1-new"]>>}

Request(route, header, id, handle, body, valid) ==
    [route |-> route, header |-> header, id |-> id, handle |-> handle,
     body |-> body, valid |-> valid]

NoRequest == Request("none", NoHeader, 0, "", <<>>, TRUE)

store == [jobs |-> jobs, nextId |-> nextId, companies |-> companies]

InitRoute ==
    /\ req = NoRequest
    /\ locals = EmptyLocals
    /\ pc = 0
    /\ ran = <<>>
    /\ nextArg = "none"
    /\ raised = "none"
    /\ status = 0
    /\ jobs = InitJobs
    /\ nextId = 2
    /\ companies = InitCompanies
    /\ call = NoCall
    /\ ret = NoRet

\* a request arrives: it gets a res.locals of its own
Receive ==
    /\ pc = 0
    /\ \E h \in RouteHeaders :
        \/ \E b \in NewJobs, v \in BOOLEAN :
              /\ nextId <= MaxId
              /\ req' = Request("POST /jobs", h, 0, "", b, v)
        \/ \E i \in JobIds :
              req' = Request("GET /jobs/:id", h, i, "", <<>>, TRUE)
        \/ \E i \in JobIds, b \in JobUpdates, v \in BOOLEAN :
              req' = Request("PATCH /jobs/:id", h, i, "", b, v)
        \/ \E i \in JobIds :
              req' = Request("DELETE /jobs/:id", h, i, "", <<>>, TRUE)
        \/ \E b \in NewCompanies, v \in BOOLEAN :
              req' = Request("POST /companies", h, 0, "", b, v)
        \/ \E c \in CompanyHandles, b \in CompanyUpdates, v \in BOOLEAN :
              req' = Request("PATCH /companies/:handle", h, 0, c, b, v)
        \/ \E c \in CompanyHandles :
              req' = Request("DELETE /companies/:handle", h, 0, c, <<>>, TRUE)
    /\ locals' = EmptyLocals
    /\ pc' = 1
    /\ ran' = <<>>
    /\ nextArg' = "none"
    /\ raised' = "none"
    /\ status' = 0
    /\ UNCHANGED <<jobs, nextId, companies, call, ret>>

Stage == Pipeline(req.route)[pc]

\* next(err) is taken for next(): the pipeline goes on after a failed gate
StepGate_Fallthrough ==
    /\ pc > 0
    /\ Stage # "handler"
    /\ LET out == Gate(Stage, req, locals)
       IN  /\ locals' = out.locals
           /\ nextArg' = out.nextArg
           /\ raised' = out.raised
           /\ ran' = Append(ran, Stage)
           /\ pc' = pc + 1
           /\ status' = status
    /\ UNCHANGED <<req, jobs, nextId, companies, call, ret>>

\* a gate runs: next() goes on to the next stage of the pipeline, next(err)
\* goes to the error handler, which answers the request
StepGate ==
    /\ pc > 0
    /\ Stage # "handler"
    /\ LET out == Gate(Stage, req, locals)
       IN  /\ locals' = out.locals
           /\ nextArg' = out.nextArg
           /\ raised' = out.raised
           /\ ran' = Append(ran, Stage)
           /\ IF out.nextArg = "none"
              THEN pc' = pc + 1 /\ status' = status
              ELSE pc' = 0 /\ status' = StatusOf(out.nextArg)
    /\ UNCHANGED <<req, jobs, nextId, companies, call, ret>>

\* the handler answers the request: err = "none" with the success status
Respond(err, ok) ==
    /\ nextArg' = err
    /\ status' = IF err = "none" THEN ok ELSE StatusOf(err)
    /\ ran' = Append(ran, "handler")
    /\ pc' = 0
    /\ UNCHANGED <<req, locals, raised, call, ret>>

AtHandler(route) == pc > 0 /\ Stage = "handler" /\ req.route = route

\* POST /jobs up to the first await of Job.create: the schema check and
\* the SELECT on companies. With the company found the handler waits to
\* send the INSERT.
PostJobsSelect ==
    /\ AtHandler("POST /jobs")
    /\ call.fn = "none"
    /\ IF ~req.valid
       THEN Respond("BadRequestError", 201) /\ UNCHANGED <<jobs, nextId, companies>>
       ELSE IF JobCreateSelect(store, req.body) # "none"
       THEN /\ Respond(JobCreateSelect(store, req.body), 201)
            /\ UNCHANGED <<jobs, nextId, companies>>
       ELSE /\ call' = [fn |-> "Job.create", awaiting |-> "INSERT"]
            /\ UNCHANGED <<req, locals, pc, ran, nextArg, raised, status, jobs,
                           nextId, companies, ret>>

\* while the handler of POST /jobs waits between its two statements, the
\* DELETE of another request, of an administrator, reaches the database
OtherRequestDeletes ==
    /\ AtHandler("POST /jobs")
    /\ call.fn = "Job.create"
    /\ \/ \E c \in DOMAIN companies :
              LET r == CompanyRemove(store, c)
              IN  companies' = r.companies /\ jobs' = r.jobs
       \/ \E i \in DOMAIN jobs :
              /\ jobs' = JobRemove(store, i).jobs
              /\ UNCHANGED companies
    /\ UNCHANGED <<req, locals, pc, ran, nextArg, raised, status, nextId, call, ret>>

\* POST /jobs from the INSERT of Job.create on: 201 with the job, or the
\* database's error handed to next
PostJobsInsert ==
    /\ AtHandler("POST /jobs")
    /\ call.fn = "Job.create"
    /\ \E r \in JobCreateInsert(store, req.body) :
           /\ nextArg' = r.error
           /\ status' = IF r.error = "none" THEN 201 ELSE StatusOf(r.error)
           /\ jobs' = r.jobs
           /\ nextId' = r.nextId
    /\ ran' = Append(ran, "handler")
    /\ pc' = 0
    /\ call' = NoCall
    /\ UNCHANGED <<req, locals, raised, companies, ret>>

GetJob ==
    /\ AtHandler("GET /jobs/:id")
    /\ Respond(JobGet(store, req.id), 200)
    /\ UNCHANGED <<jobs, nextId, companies>>

PatchJob ==
    /\ AtHandler("PATCH /jobs/:id")
    /\ IF ~req.valid
       THEN Respond("BadRequestError", 200) /\ UNCHANGED <<jobs, nextId, companies>>
       ELSE LET r == JobUpdate(store, req.id, req.body)
            IN  /\ Respond(r.error, 200)
                /\ jobs' = r.jobs
                /\ UNCHANGED <<nextId, companies>>

DeleteJob ==
    /\ AtHandler("DELETE /jobs/:id")
    /\ LET r == JobRemove(store, req.id)
       IN  /\ Respond(r.error, 200)
           /\ jobs' = r.jobs
           /\ UNCHANGED <<nextId, companies>>

PostCompanies ==
    /\ AtHandler("POST /companies")
    /\ IF ~req.valid
       THEN Respond("BadRequestError", 201) /\ UNCHANGED <<jobs, nextId, companies>>
       ELSE LET r == CompanyCreate(store, req.body)
            IN  /\ Respond(r.error, 201)
                /\ companies' = r.companies
                /\ UNCHANGED <<jobs, nextId>>

PatchCompany ==
    /\ AtHandler("PATCH /companies/:handle")
    /\ IF ~req.valid
       THEN Respond("BadRequestError", 200) /\ UNCHANGED <<jobs, nextId, companies>>
       ELSE LET r == CompanyUpdate(store, req.handle, req.body)
            IN  /\ Respond(r.error, 200)
                /\ companies' = r.companies
                /\ UNCHANGED <<jobs, nextId>>

DeleteCompany ==
    /\ AtHandler("DELETE /companies/:handle")
    /\ LET r == CompanyRemove(store, req.handle)
       IN  /\ Respond(r.error, 200)
           /\ companies' = r.companies
           /\ jobs' = r.jobs
           /\ UNCHANGED nextId

NextRoute ==
    \/ Receive
    \/ StepGate
    \/ PostJobsSelect
    \/ OtherRequestDeletes
    \/ PostJobsInsert
    \/ GetJob
    \/ PatchJob
    \/ DeleteJob
    \/ PostCompanies
    \/ PatchCompany
    \/ DeleteCompany

SpecRoute == InitRoute /\ [][NextRoute]_vars

(***************************************************************************)
(* Claims about the middleware                                             *)
(***************************************************************************)

\* C1: authenticateJWT never rejects a request: whatever the Authorization
\* header (none, a token that fails verification, a valid token), it calls
\* next with no error argument and raises nothing.
C1_AuthenticateNeverRejects ==
    JustRan("authenticateJWT") => Passed

\* authenticateJWT has run on a token signed with another secret
C1_Witness ==
    /\ JustRan("authenticateJWT")
    /\ req.header.kind = "value"
    /\ req.header.scheme = "Bearer "
    /\ req.header.token.wellFormed
    /\ req.header.token.key # SECRET_KEY
    /\ Passed

\* the request presents a string that jwt.verify accepts under SECRET_KEY
PresentsVerifyingToken(r) ==
    /\ r.header.kind = "value"
    /\ jwtVerifies(StripBearer(r.header), SECRET_KEY)

\* C2: after authenticateJWT the identity slot is populated if and only if
\* the request presented a token that verifies against the shared secret,
\* and then it equals the payload of that token; otherwise it stays empty.
C2_SlotIffVerified ==
    JustRan("authenticateJWT") =>
        /\ HasUser(locals) <=> PresentsVerifyingToken(req)
        /\ HasUser(locals) =>
               /\ locals.user.username = req.header.token.username
               /\ locals.user.isAdmin = req.header.token.isAdmin
        /\ ~HasUser(locals) => locals = EmptyLocals

\* authenticateJWT has populated the slot from a verified token
C2_Witness ==
    /\ JustRan("authenticateJWT")
    /\ HasUser(locals)
    /\ locals.user = [username |-> "u1", isAdmin |-> "false"]

\* C3: ensureLoggedIn passes control through (next with no error) if and
\* only if the identity slot is populated; with an empty slot it calls next
\* with an UnauthorizedError.
C3_LoggedInIffSlot ==
    JustRan("ensureLoggedIn") =>
        /\ Passed <=> HasUser(locals)
        /\ ~HasUser(locals) => nextArg = "UnauthorizedError" /\ raised = "none"

\* ensureLoggedIn has turned away a request whose token failed verification
C3_Witness ==
    /\ ran = <<"authenticateJWT", "ensureLoggedIn">>
    /\ req.header.kind = "value"
    /\ ~HasUser(locals)
    /\ nextArg = "UnauthorizedError"

\* C4: ensureAdmin passes control through if and only if the identity slot
\* is populated and identity.isAdmin === true; for every other state of the
\* slot (isAdmin false, missing, any other value, slot empty) it does not.
C4_AdminIffStrictlyTrue ==
    JustRan("ensureAdmin") =>
        (Passed <=> (HasUser(locals) /\ locals.user.isAdmin = "true"))

\* C5: whenever ensureAdmin fails, what it hands to next is the typed
\* Unauthorized failure, also when the identity slot is empty.
C5_AdminFailureIsUnauthorized ==
    (JustRan("ensureAdmin") /\ ~Passed) =>
        (nextArg = "UnauthorizedError" /\ raised = "none")

\* C6: over identity present/absent, isAdmin true/false and username
\* matching or not, ensureAdminOrUser passes control through if and only if
\* the identity is present and (isAdmin is true or the identity's username
\* is the username of the request path).
C6_AdminOrUserMatrix ==
    (/\ JustRan("ensureAdminOrUser")
     /\ HasUser(locals) => locals.user.isAdmin \in {"true", "false"}) =>
        (Passed <=>
            /\ HasUser(locals)
            /\ \/ locals.user.isAdmin = "true"
               \/ locals.user.username = req.username)

\* ensureAdminOrUser has let the owner through, who is no admin
C6_Witness ==
    /\ JustRan("ensureAdminOrUser")
    /\ HasUser(locals)
    /\ locals.user.isAdmin = "false"
    /\ locals.user.username = req.username
    /\ Passed

\* C7: ensureAdminOrUser on an empty identity slot hands the typed
\* Unauthorized failure to next, and no other kind of error.
C7_AdminOrUserEmptySlotUnauthorized ==
    (JustRan("ensureAdminOrUser") /\ ~HasUser(locals)) =>
        (nextArg = "UnauthorizedError" /\ raised = "none")

\* C8: ensureAdminOrUser on an identity with no username field, whose
\* isAdmin is not true, fails with Unauthorized for every path username.
C8_MissingUsernameNeverPasses ==
    (/\ JustRan("ensureAdminOrUser")
     /\ HasUser(locals)
     /\ locals.user.username = Undefined
     /\ locals.user.isAdmin # "true") =>
        (nextArg = "UnauthorizedError" /\ raised = "none")

(***************************************************************************)
(* Claims about the routes                                                 *)
(***************************************************************************)
IsPrefix(s, t) == Len(s) <= Len(t) /\ \A i \in 1..Len(s) : s[i] = t[i]

\* the gate at position i of ran turned the request away
FailedAt(i) == ran[i] # "handler" /\ Gate(ran[i], req, locals).nextArg # "none"

\* C9: in a route's declared chain the first gate that fails ends the
\* evaluation (no later gate and no handler runs for that request), and the
\* handler runs only after every gate of the chain has passed.
C9_ShortCircuit ==
    req.route # "none" =>
        /\ IsPrefix(ran, Pipeline(req.route))
        /\ \A i \in 1..Len(ran) : FailedAt(i) => (i = Len(ran) /\ pc = 0)
        /\ (ran # <<>> /\ Last(ran) = "handler") =>
               \A i \in 1..Len(Chain(req.route)) :
                   /\ ran[i + 1] = Chain(req.route)[i]
                   /\ Gate(Chain(req.route)[i], req, locals).nextArg = "none"

\* ensureLoggedIn failed on POST /jobs: ensureAdmin and the handler never ran
C9_Witness ==
    /\ req.route = "POST /jobs"
    /\ pc = 0
    /\ ran = <<"authenticateJWT", "ensureLoggedIn">>
    /\ nextArg = "UnauthorizedError"

\* no valid credential, or a credential whose isAdmin is false or missing
Unprivileged(r) ==
    \/ ~PresentsVerifyingToken(r)
    \/ r.header.token.isAdmin \in {"false", Undefined}

C10_Answered401 ==
    (/\ req.route \in MutatingRoutes
     /\ Unprivileged(req)
     /\ pc = 0) =>
        /\ status = 401
        /\ nextArg = "UnauthorizedError"
        /\ \A i \in 1..Len(ran) : ran[i] # "handler"

C10_StoreUntouched ==
    (req'.route \in MutatingRoutes /\ Unprivileged(req')) =>
        UNCHANGED <<jobs, nextId, companies>>

\* C10: on the mutating routes (POST, PATCH, DELETE on jobs and companies) a
\* request with no valid credential, or with a credential whose isAdmin is
\* false or missing, is answered 401 Unauthorized and never reaches the
\* model operation: the stored jobs and companies are unchanged.
C10_UnprivilegedNeverMutates ==
    /\ []C10_Answered401
    /\ [][C10_StoreUntouched]_vars

\* a signed-in user who is no admin was answered 401 on PATCH /jobs/:id
C10_Witness ==
    /\ req.route = "PATCH /jobs/:id"
    /\ req.valid
    /\ req.id = 1
    /\ Len(req.body) > 0
    /\ HasUser(locals)
    /\ locals.user.isAdmin = "false"
    /\ pc = 0
    /\ status = 401
    /\ ran = <<"authenticateJWT", "ensureLoggedIn", "ensureAdmin">>

(***************************************************************************)
(* sqlForPartialUpdate called directly, as helpers/sql.test.js calls it    *)
(***************************************************************************)
MaxFields == 2

SqlKeys == {"firstName", "age", "toString"}
SqlValues == {"Aliya", "Bo"}
SqlColumns == {"first_name", ""}

\* objects of at most MaxFields fields; the keys of an object are distinct
SqlData ==
    {d \in UNION {[1..n -> [key : SqlKeys, value : SqlValues]] : n \in 0..MaxFields} :
        \A i, j \in 1..Len(d) : d[i].key = d[j].key => i = j}

\* column maps with or without an entry for firstName and for age
SqlMaps == UNION {[D -> SqlColumns] : D \in SUBSET {"firstName", "age"}}

\* everything but the direct call stands still
Idle ==
    /\ req = [route |-> "none", header |-> NoHeader]
    /\ locals = EmptyLocals
    /\ ran = <<>>
    /\ nextArg = "none"
    /\ raised = "none"
    /\ status = 0
    /\ nextId = 2
    /\ companies = InitCompanies

InitSql ==
    /\ Idle
    /\ jobs = InitJobs
    /\ pc = 0
    /\ call \in [fn : {"sqlForPartialUpdate"}, dataToUpdate : SqlData,
                 jsToSql : SqlMaps]
    /\ ret = NoRet

CallSqlForPartialUpdate ==
    /\ pc = 0
    /\ call.fn = "sqlForPartialUpdate"
    /\ ret' = sqlForPartialUpdate(call.dataToUpdate, call.jsToSql)
    /\ pc' = 1
    /\ UNCHANGED <<req, locals, ran, nextArg, raised, status, jobs, nextId,
                   companies, call>>

NextSql == CallSqlForPartialUpdate

SpecSql == InitSql /\ [][NextSql]_vars

Returned(fn) == pc = 1 /\ call.fn = fn

(***************************************************************************)
(* Claims about sqlForPartialUpdate                                        *)
(***************************************************************************)

\* C11: called with an empty field map, sqlForPartialUpdate fails with
\* BadRequestError "No data" and returns no fragment, whatever the column
\* map is.
C11_EmptyDataIsBadRequest ==
    (Returned("sqlForPartialUpdate") /\ Len(call.dataToUpdate) = 0) =>
        /\ ret.error = "BadRequestError"
        /\ ret.message = "No data"
        /\ ret.setCols = <<>>
        /\ ret.values = <<>>

\* the call failed on {} with a column map that has both entries
C11_Witness ==
    /\ Returned("sqlForPartialUpdate")
    /\ call.dataToUpdate = <<>>
    /\ DOMAIN call.jsToSql = {"firstName", "age"}
    /\ ret.error = "BadRequestError"

\* C12: for n > 0 fields there are exactly n fragments and n values; the
\* i-th fragment, in the iteration order of the fields, uses placeholder $i
\* (from 1, no gap, no repeat) and the i-th value is the i-th field's value.
C12_PlaceholdersParallelValues ==
    (Returned("sqlForPartialUpdate") /\ Len(call.dataToUpdate) > 0) =>
        /\ ret.error = "none"
        /\ Len(ret.setCols) = Len(call.dataToUpdate)
        /\ Len(ret.values) = Len(call.dataToUpdate)
        /\ \A i \in 1..Len(call.dataToUpdate) :
               /\ ret.setCols[i].placeholder = i
               /\ ret.values[i] = call.dataToUpdate[i].value

\* the call returned two fragments for {age: "Bo", firstName: "Aliya"}
C12_Witness ==
    /\ Returned("sqlForPartialUpdate")
    /\ call.dataToUpdate = <<[key |-> "age", value |-> "Bo"],
                             [key |-> "firstName", value |-> "Aliya"]>>
    /\ Len(ret.setCols) = 2
    /\ ret.setCols[2].placeholder = 2

\* C13: the column name of each fragment is the value the column map gives
\* for the field when the map has an entry for it, and the field name
\* verbatim when the map has no entry for it.
C13_ColumnFromMapOrVerbatim ==
    (Returned("sqlForPartialUpdate") /\ Len(call.dataToUpdate) > 0) =>
        \A i \in 1..Len(call.dataToUpdate) :
            LET field == call.dataToUpdate[i].key
            IN  ret.setCols[i].col =
                    IF field \in DOMAIN call.jsToSql
                    THEN call.jsToSql[field] ELSE field

\* the same fields in the same order, with any values
SameKeys(d, e) ==
    /\ Len(d) = Len(e)
    /\ \A i \in 1..Len(d) : d[i].key = e[i].key

\* C14: the fragment string does not depend on the values: two calls with
\* the same field names in the same order and the same column map return
\* the same setCols, and no value stands in a fragment.
C14_FragmentsIgnoreValues ==
    (Returned("sqlForPartialUpdate") /\ Len(call.dataToUpdate) > 0) =>
        /\ \A other \in SqlData :
               SameKeys(other, call.dataToUpdate) =>
                   sqlForPartialUpdate(other, call.jsToSql).setCols = ret.setCols
        /\ \A i \in 1..Len(ret.setCols) :
               /\ ret.setCols[i].col \notin SqlValues
               /\ ret.setCols[i].placeholder \in 1..Len(ret.values)
        /\ \A i \in 1..Len(ret.values) : ret.values[i] \in SqlValues

\* the call returned for {firstName: "Bo"}, one of two objects with that key
C14_Witness ==
    /\ Returned("sqlForPartialUpdate")
    /\ call.dataToUpdate = <<[key |-> "firstName", value |-> "Bo"]>>
    /\ call.jsToSql = [k \in {"firstName"} |-> "first_name"]
    /\ ret.setCols = <<Fragment("first_name", 1)>>
    /\ ret.values = <<"Bo">>

(***************************************************************************)
(* Job.update and Job.filterJobs called directly on a jobs table, as       *)
(* models/job.test.js calls them                                           *)
(***************************************************************************)
MaxJobs == 2

\* the jobs a table is made of: titles in both cases and with a tie,
\* salaries on either side of the bounds asked for and null, equities zero,
\* positive and null
JobKinds ==
    {[title |-> <<"A", "1">>, salary |-> 2, equity |-> "0.5"],
     [title |-> <<"j", "1">>, salary |-> 1, equity |-> "0"],
     [title |-> <<"j", "1">>, salary |-> 1, equity |-> "0.5"],
     [title |-> <<"j", "2">>, salary |-> 2, equity |-> "0"],
     [title |-> <<"j", "2">>, salary |-> NullSalary, equity |-> NullEquity],
     [title |-> <<"A", "1">>, salary |-> NullSalary, equity |-> "0.5"]}

\* tables of at most MaxJobs jobs, with the serial ids 1, 2, ...
JobTables ==
    {[id \in 1..Len(t) |->
         [id |-> id, title |-> t[id].title, salary |-> t[id].salary,
          equity |-> t[id].equity, company_handle |-> "c1"]] :
        t \in UNION {[1..n -> JobKinds] : n \in 0..MaxJobs}}

\* obj without its property key
Drop(obj, key) == [k \in DOMAIN obj \ {key} |-> obj[k]]

\* the options objects: each of title, minSalary and hasEquity absent or
\* given, the empty title, the bound 0 and the flag false included
FilterOptions ==
    {[k \in D |-> full[k]] :
        D \in SUBSET {"title", "minSalary", "hasEquity"},
        full \in [title : {<<>>, <<"a">>, <<"J", "1">>, <<"x">>},
                  minSalary : {0, 1, 2, 3},
                  hasEquity : {"true", "false"}]}

\* the data objects of Job.update: empty, one field, several, nulls
JobData ==
    {<<>>,
     <<[key |-> "title", value |-> <<"J", "1">>]>>,
     <<[key |-> "salary", value |-> NullSalary]>>,
     <<[key |-> "salary", value |-> 2], [key |-> "equity", value |-> "0.9"]>>,
     <<[key |-> "salary", value |-> NullSalary],
       [key |-> "equity", value |-> NullEquity]>>,
     <<[key |-> "equity", value |-> "0"], [key |-> "title", value |-> <<"x">>]>>}

JobCalls ==
    [fn : {"Job.update"}, id : 0..MaxJobs, data : JobData]
        \cup [fn : {"Job.filterJobs"}, options : FilterOptions]

InitJob ==
    /\ req = [route |-> "none", header |-> NoHeader]
    /\ locals = EmptyLocals
    /\ ran = <<>>
    /\ nextArg = "none"
    /\ raised = "none"
    /\ status = 0
    /\ companies = InitCompanies
    /\ jobs \in JobTables
    /\ nextId = Cardinality(DOMAIN jobs) + 1
    /\ pc = 0
    /\ call \in JobCalls
    /\ ret = NoRet

CallJobUpdate ==
    /\ pc = 0
    /\ call.fn = "Job.update"
    /\ ret' = JobUpdate(store, call.id, call.data)
    /\ jobs' = ret'.jobs
    /\ pc' = 1
    /\ UNCHANGED <<req, locals, ran, nextArg, raised, status, nextId,
                   companies, call>>

CallJobFilterJobs ==
    /\ pc = 0
    /\ call.fn = "Job.filterJobs"
    /\ \E data \in JobFindAll(store) :
           ret' = JobFilterJobs(data, call.options)
    /\ pc' = 1
    /\ UNCHANGED <<req, locals, ran, nextArg, raised, status, jobs, nextId,
                   companies, call>>

NextJob == CallJobUpdate \/ CallJobFilterJobs

SpecJob == InitJob /\ [][NextJob]_vars

(***************************************************************************)
(* Claims about Job.update                                                 *)
(***************************************************************************)

\* C15: Job.update called with an empty data object fails with
\* BadRequestError before any statement is sent to the database, and the
\* stored jobs are unchanged.
C15_EmptyUpdateIsBadRequest ==
    [][(pc = 0 /\ call.fn = "Job.update" /\ call.data = <<>>) =>
          /\ ret'.error = "BadRequestError"
          /\ ret'.sent = <<>>
          /\ jobs' = jobs]_vars

\* Job.update(1, {}) failed on a table that has job 1
C15_Witness ==
    /\ Returned("Job.update")
    /\ call.data = <<>>
    /\ call.id = 1
    /\ 1 \in DOMAIN jobs
    /\ ret.error = "BadRequestError"
    /\ ret.sent = <<>>

\* the fields data names
Named(data) == {data[i].key : i \in 1..Len(data)}

\* C16: Job.update(id, data) on an existing job changes only the fields
\* named in data, on the job with that id: each named field takes the value
\* given (null when null is given), every other field of that job keeps its
\* value (so a field turns null only when named), and every other job is
\* unchanged.
C16_UpdateChangesOnlyNamed ==
    [][(pc = 0 /\ call.fn = "Job.update" /\ call.id \in DOMAIN jobs
            /\ Len(call.data) > 0) =>
          /\ ret'.error = "none"
          /\ DOMAIN jobs' = DOMAIN jobs
          /\ \A k \in DOMAIN jobs \ {call.id} : jobs'[k] = jobs[k]
          /\ \A c \in {"id", "title", "salary", "equity", "company_handle"} :
                 c \notin Named(call.data) => jobs'[call.id][c] = jobs[call.id][c]
          /\ \A i \in 1..Len(call.data) :
                 jobs'[call.id][call.data[i].key] = call.data[i].value]_vars

\* Job.update(1, {salary: null, equity: null}) returned: job 1 has the two
\* nulls and its title, job 2 still has a salary and an equity
C16_Witness ==
    /\ Returned("Job.update")
    /\ call.id = 1
    /\ call.data = <<[key |-> "salary", value |-> NullSalary],
                     [key |-> "equity", value |-> NullEquity]>>
    /\ ret.error = "none"
    /\ jobs[1].salary = NullSalary
    /\ jobs[1].equity = NullEquity
    /\ jobs[1].title = <<"j", "1">>
    /\ 2 \in DOMAIN jobs
    /\ jobs[2].salary = 2
    /\ jobs[2].equity = "0"

(***************************************************************************)
(* Claims about Job.filterJobs                                             *)
(***************************************************************************)

\* the three predicates as the options supply them: a title supplied asks
\* for it as a substring whatever the case, a minSalary supplied asks for a
\* salary at or above it, hasEquity true asks for an equity above zero
MeetsTitle(job, options) ==
    "title" \in DOMAIN options =>
        \E i \in 0..(Len(job.title) - Len(options.title)) :
            toLowerCase(SubSeq(job.title, i + 1, i + Len(options.title)))
                = toLowerCase(options.title)

MeetsMinSalary(job, options) ==
    "minSalary" \in DOMAIN options =>
        (IF job.salary = NullSalary THEN 0 ELSE job.salary) >= options.minSalary

MeetsHasEquity(job, options) ==
    ("hasEquity" \in DOMAIN options /\ options.hasEquity = "true") =>
        job.equity \in {"0.5", "0.9", "1"}

MeetsAll(job, options) ==
    /\ MeetsTitle(job, options)
    /\ MeetsMinSalary(job, options)
    /\ MeetsHasEquity(job, options)

\* C17: Job.filterJobs fails with NotFoundError if and only if no stored job
\* satisfies all supplied predicates; otherwise it returns a non-empty list,
\* and it never returns an empty list.
C17_NotFoundIffNoMatch ==
    Returned("Job.filterJobs") =>
        /\ ret.error \in {"none", "NotFoundError"}
        /\ ret.error = "NotFoundError" <=>
               ~\E k \in DOMAIN jobs : MeetsAll(JobOf(jobs[k]), call.options)
        /\ ret.error = "none" => Len(ret.rows) > 0

\* {title: "x", minSalary: 1} failed on a table of two jobs, each of salary
\* at least 1 and none with an x in its title
C17_Witness ==
    /\ Returned("Job.filterJobs")
    /\ call.options = [title |-> <<"x">>, minSalary |-> 1]
    /\ Cardinality(DOMAIN jobs) = 2
    /\ \A k \in DOMAIN jobs : jobs[k].salary >= 1
    /\ ret.error = "NotFoundError"

\* the three axes of filtering, and the orders they can be applied in
Axes == {"title", "minSalary", "hasEquity"}
AxisOrders == {o \in [1..3 -> Axes] : \A i, j \in 1..3 : o[i] = o[j] => i = j}

\* list narrowed on one axis
Narrow(list, axis, options) ==
    LET Test(job) ==
            CASE axis = "title" -> MeetsTitle(job, options)
              [] axis = "minSalary" -> MeetsMinSalary(job, options)
              [] axis = "hasEquity" -> MeetsHasEquity(job, options)
    IN  SelectSeq(list, Test)

\* list narrowed on the three axes in the order given
NarrowInOrder(list, order, options) ==
    Narrow(Narrow(Narrow(list, order[1], options), order[2], options),
           order[3], options)

\* C18: the non-error result of Job.filterJobs is the subsequence of the
\* full collection (every stored job once, as Job.findAll lists them), in
\* its original order, of exactly the jobs that satisfy every supplied
\* predicate; applying the predicates in any order gives that same result.
C18_ResultIsOrderedConjunction ==
    (Returned("Job.filterJobs") /\ ret.error = "none") =>
        LET All(job) == MeetsAll(job, call.options)
        IN  /\ Len(ret.data) = Cardinality(DOMAIN jobs)
            /\ \A k \in DOMAIN jobs :
                   \E i \in 1..Len(ret.data) : ret.data[i] = JobOf(jobs[k])
            /\ ret.rows = SelectSeq(ret.data, All)
            /\ \A order \in AxisOrders :
                   NarrowInOrder(ret.data, order, call.options) = ret.rows

\* {title: "a", minSalary: 2, hasEquity: true} returned job 1 alone from
\* a table whose job 2 has the title but not the salary
C18_Witness ==
    /\ Returned("Job.filterJobs")
    /\ call.options = [title |-> <<"a">>, minSalary |-> 2, hasEquity |-> "true"]
    /\ Cardinality(DOMAIN jobs) = 2
    /\ jobs[1].title = <<"A", "1">>
    /\ jobs[2].title = <<"A", "1">>
    /\ jobs[2].salary = NullSalary
    /\ ret.error = "none"
    /\ Len(ret.rows) = 1
    /\ ret.rows[1].id = 1

\* C19: when minSalary is supplied the result keeps, of the jobs the other
\* options keep, exactly those whose salary is greater than or equal to the
\* bound (a salary equal to the bound is kept); when it is absent no job is
\* removed for its salary.
C19_MinSalaryInclusive ==
    Returned("Job.filterJobs") =>
        LET others == Drop(call.options, "minSalary")
            AtLeast(job) ==
                (IF job.salary = NullSalary THEN 0 ELSE job.salary)
                    >= call.options.minSalary
            Rest(job) == MeetsTitle(job, others) /\ MeetsHasEquity(job, others)
        IN  IF "minSalary" \in DOMAIN call.options
            THEN ret.rows = SelectSeq(SelectSeq(ret.data, Rest), AtLeast)
            ELSE ret.rows = SelectSeq(ret.data, Rest)

\* {minSalary: 2} kept the job of salary 2 and dropped the job of salary 1
C19_Witness ==
    /\ Returned("Job.filterJobs")
    /\ call.options = [minSalary |-> 2]
    /\ Cardinality(DOMAIN jobs) = 2
    /\ jobs[1].salary = 1
    /\ jobs[2].salary = 2
    /\ ret.error = "none"
    /\ Len(ret.rows) = 1
    /\ ret.rows[1].id = 2
    /\ ret.rows[1].salary = call.options.minSalary

\* C20: when hasEquity is true the result keeps, of the jobs the other
\* options keep, only those whose equity read as a number is strictly
\* greater than zero; when hasEquity is false the outcome is the same as
\* when the option is absent.
C20_HasEquityAsymmetric ==
    Returned("Job.filterJobs") =>
        LET others == Drop(call.options, "hasEquity")
            Positive(job) == job.equity \in {"0.5", "0.9", "1"}
            Rest(job) == MeetsTitle(job, others) /\ MeetsMinSalary(job, others)
        IN  /\ ("hasEquity" \in DOMAIN call.options
                    /\ call.options.hasEquity = "true") =>
                   ret.rows = SelectSeq(SelectSeq(ret.data, Rest), Positive)
            /\ ("hasEquity" \in DOMAIN call.options
                    /\ call.options.hasEquity = "false") =>
                   ret = JobFilterJobs(ret.data, others)

\* {hasEquity: true} kept the job of equity "0.5" and dropped the job of
\* equity "0"
C20_Witness ==
    /\ Returned("Job.filterJobs")
    /\ call.options = [hasEquity |-> "true"]
    /\ Cardinality(DOMAIN jobs) = 2
    /\ jobs[1].equity = "0"
    /\ jobs[2].equity = "0.5"
    /\ ret.error = "none"
    /\ Len(ret.rows) = 1
    /\ ret.rows[1].id = 2

\* C21: when title is supplied a job is kept, of the jobs the other options
\* keep, if and only if its title contains the option as a substring, letter
\* case disregarded (option "J1" matches title "j1"); when it is absent no
\* job is removed for its title.
C21_TitleSubstringAnyCase ==
    Returned("Job.filterJobs") =>
        LET others == Drop(call.options, "title")
            SameLetters(s, t) ==
                /\ Len(s) = Len(t)
                /\ \A i \in 1..Len(s) :
                       \/ s[i] = t[i]
                       \/ {s[i], t[i]} \in {{"A", "a"}, {"J", "j"}}
            Contains(job) ==
                \E i \in 0..(Len(job.title) - Len(call.options.title)) :
                    SameLetters(SubSeq(job.title, i + 1,
                                       i + Len(call.options.title)),
                                call.options.title)
            Rest(job) == MeetsMinSalary(job, others) /\ MeetsHasEquity(job, others)
        IN  IF "title" \in DOMAIN call.options
            THEN ret.rows = SelectSeq(SelectSeq(ret.data, Rest), Contains)
            ELSE ret.rows = SelectSeq(ret.data, Rest)

\* {title: "J1"} kept the job titled "j1" and dropped the job titled "A1"
C21_Witness ==
    /\ Returned("Job.filterJobs")
    /\ call.options = [title |-> <<"J", "1">>]
    /\ Cardinality(DOMAIN jobs) = 2
    /\ jobs[1].title = <<"j", "1">>
    /\ jobs[2].title = <<"A", "1">>
    /\ ret.error = "none"
    /\ Len(ret.rows) = 1
    /\ ret.rows[1].title = <<"j", "1">>

\* C22: filtering is idempotent for fixed options: the same options applied
\* to the result of a successful filter give that same result, no job
\* removed, none added, and no error.
C22_FilterIdempotent ==
    (Returned("Job.filterJobs") /\ ret.error = "none") =>
        LET again == JobFilterJobs(ret.rows, call.options)
        IN  /\ again.error = "none"
            /\ again.rows = ret.rows

\* {title: "J1", minSalary: 1} kept one job of a table of two and dropped
\* the other; filtered again, the one job is kept
C22_Witness ==
    /\ Returned("Job.filterJobs")
    /\ call.options = [title |-> <<"J", "1">>, minSalary |-> 1]
    /\ Cardinality(DOMAIN jobs) = 2
    /\ ret.error = "none"
    /\ Len(ret.rows) = 1
    /\ Len(ret.data) = 2
    /\ JobFilterJobs(ret.rows, call.options).rows = ret.rows

(***************************************************************************)
(* The listing routes GET /jobs and GET /companies: a query string, its    *)
(* coercion and validation, then the model's filter or findAll             *)
(***************************************************************************)

\* JavaScript values of several types side by side, each under its type;
\* a string is the sequence of its characters
Num(n) == [num |-> n]
Str(s) == [str |-> s]
Bool(b) == [bool |-> b]
NaN == [nan |-> TRUE]

IsNum(v) == "num" \in DOMAIN v
IsStr(v) == "str" \in DOMAIN v
IsBool(v) == "bool" \in DOMAIN v

\* if (v)
TruthyValue(v) ==
    CASE IsNum(v) -> v.num # 0
      [] IsStr(v) -> Len(v.str) > 0
      [] IsBool(v) -> v.bool
      [] OTHER -> FALSE

Digits == {"0", "1", "2", "3"}

DigitValue(ch) ==
    CASE ch = "0" -> 0
      [] ch = "1" -> 1
      [] ch = "2" -> 2
      [] ch = "3" -> 3

RECURSIVE DecimalValue(_)
\* the number a sequence of digits writes
DecimalValue(str) ==
    IF Len(str) = 0 THEN 0
    ELSE 10 * DecimalValue(SubSeq(str, 1, Len(str) - 1)) + DigitValue(str[Len(str)])

\* Number(str) for strings of digits and letters
Number(str) ==
    IF \A i \in 1..Len(str) : str[i] \in Digits
    THEN Num(DecimalValue(str))
    ELSE NaN

\* the table companies with the number of employees of each company
CompanyKinds ==
    [h \in {"c1", "c2", "c3"} |->
        CASE h = "c1" -> [handle |-> "c1", name |-> <<"A", "1">>, numEmployees |-> 1]
          [] h = "c2" -> [handle |-> "c2", name |-> <<"j", "2">>, numEmployees |-> 2]
          [] h = "c3" -> [handle |-> "c3", name |-> <<"j", "1">>, numEmployees |-> 0]]

CompanyTables == {[h \in S |-> CompanyKinds[h]] : S \in SUBSET DOMAIN CompanyKinds}

\* Company.findAll: every company, ordered by name
CompanyFindAll(db) ==
    LET hs == DOMAIN db.companies
        n == Cardinality(hs)
        Orders == {s \in [1..n -> hs] :
                      /\ \A i, j \in 1..n : s[i] = s[j] => i = j
                      /\ \A i, j \in 1..n :
                             i < j => ~TitleLess(db.companies[s[j]].name,
                                                 db.companies[s[i]].name)}
    IN  {[i \in 1..n |-> db.companies[s[i]]] : s \in Orders}

\* Company.filterCompanies on data, the list of the companies
CompanyFilterCompanies(data, options) ==
    LET Test(company) ==
            /\ "name" \in DOMAIN options =>
                   includes(toLowerCase(company.name), toLowerCase(options.name))
            /\ "minEmployees" \in DOMAIN options =>
                   company.numEmployees >= options.minEmployees
            /\ "maxEmployees" \in DOMAIN options =>
                   company.numEmployees <= options.maxEmployees
        results == SelectSeq(data, Test)
    IN  IF Len(results) = 0
        THEN [error |-> "NotFoundError", data |-> data, rows |-> <<>>]
        ELSE [error |-> "none", data |-> data, rows |-> results]

\* what a handler did: the error it passed to next (or none), the status
\* it answered with on success, the model function it called and the
\* result of that call
Handled(error, called, result) ==
    [error |-> error, call |-> called, ret |-> result]

\* req.query of GET /companies after the two conversions to a number
CompanyOptions(query) ==
    [k \in DOMAIN query |->
        IF k \in {"minEmployees", "maxEmployees"} /\ TruthyValue(Str(query[k]))
        THEN Number(query[k])
        ELSE Str(query[k])]

\* jsonschema.validate(options, companyFilterSchema): name a string,
\* minEmployees and maxEmployees integers, no other property
companyFilterSchema(options) ==
    /\ DOMAIN options \subseteq {"name", "minEmployees", "maxEmployees"}
    /\ "name" \in DOMAIN options => IsStr(options.name)
    /\ "minEmployees" \in DOMAIN options => IsNum(options.minEmployees)
    /\ "maxEmployees" \in DOMAIN options => IsNum(options.maxEmployees)

\* options.minEmployees && options.maxEmployees
\*     && options.minEmployees >= options.maxEmployees, on validated options
MinNotBelowMax(options) ==
    /\ "minEmployees" \in DOMAIN options
    /\ "maxEmployees" \in DOMAIN options
    /\ TruthyValue(options.minEmployees)
    /\ TruthyValue(options.maxEmployees)
    /\ options.minEmployees.num >= options.maxEmployees.num

\* the validated options as Company.filterCompanies reads them
CompanyFilterArgs(options) ==
    [k \in DOMAIN options |-> IF k = "name" THEN options[k].str ELSE options[k].num]

\* GET /companies, on data, the list Company.findAll would give
getCompanies(query, data) ==
    IF DOMAIN query # {}
    THEN LET options == CompanyOptions(query)
         IN  IF ~companyFilterSchema(options)
             THEN Handled("BadRequestError", NoCall, NoRet)
             ELSE IF MinNotBelowMax(options)
             THEN Handled("BadRequestError", NoCall, NoRet)
             ELSE LET results == CompanyFilterCompanies(data, CompanyFilterArgs(options))
                  IN  Handled(results.error,
                              [fn |-> "Company.filterCompanies",
                               options |-> CompanyFilterArgs(options)],
                              results)
    ELSE Handled("none", [fn |-> "Company.findAll"],
                 [error |-> "none", data |-> data, rows |-> data])

\* req.query of GET /jobs after the conversions to a number and a boolean
JobOptions(query) ==
    [k \in DOMAIN query |->
        IF k = "minSalary" /\ TruthyValue(Str(query[k])) THEN Number(query[k])
        ELSE IF k = "hasEquity" /\ query[k] = <<"t", "r", "u", "e">> THEN Bool(TRUE)
        ELSE IF k = "hasEquity" /\ query[k] = <<"f", "a", "l", "s", "e">> THEN Bool(FALSE)
        ELSE Str(query[k])]

\* jsonschema.validate(options, jobFilterSchema): title a string, minSalary
\* an integer not below 0, hasEquity a boolean, no other property
jobFilterSchema(options) ==
    /\ DOMAIN options \subseteq {"title", "minSalary", "hasEquity"}
    /\ "title" \in DOMAIN options => IsStr(options.title)
    /\ "minSalary" \in DOMAIN options =>
           IsNum(options.minSalary) /\ options.minSalary.num >= 0
    /\ "hasEquity" \in DOMAIN options => IsBool(options.hasEquity)

\* the validated options as Job.filterJobs reads them
JobFilterArgs(options) ==
    [k \in DOMAIN options |->
        CASE k = "title" -> options[k].str
          [] k = "minSalary" -> options[k].num
          [] k = "hasEquity" -> IF options[k].bool THEN "true" ELSE "false"]

\* the test on the keys of req.query is dropped: every listing is filtered
getJobs_AlwaysFilter(query, data) ==
    LET options == JobOptions(query)
    IN  IF ~jobFilterSchema(options)
        THEN Handled("BadRequestError", NoCall, NoRet)
        ELSE LET results == JobFilterJobs(data, JobFilterArgs(options))
             IN  Handled(results.error,
                         [fn |-> "Job.filterJobs", options |-> JobFilterArgs(options)],
                         results)

\* GET /jobs, on data, the list Job.findAll gives
getJobs(query, data) ==
    IF DOMAIN query # {}
    THEN LET options == JobOptions(query)
         IN  IF ~jobFilterSchema(options)
             THEN Handled("BadRequestError", NoCall, NoRet)
             ELSE LET results == JobFilterJobs(data, JobFilterArgs(options))
                  IN  Handled(results.error,
                              [fn |-> "Job.filterJobs",
                               options |-> JobFilterArgs(options)],
                              results)
    ELSE Handled("none", [fn |-> "Job.findAll"],
                 [error |-> "none", data |-> data, rows |-> data])

\* the query strings sent to GET /jobs: each key absent or given, with
\* well-typed values, the empty string, and values of the wrong type
JobQueries ==
    {[k \in D |-> full[k]] :
        D \in SUBSET {"title", "minSalary", "hasEquity", "other"},
        full \in [title : {<<>>, <<"j">>, <<"x">>},
                  minSalary : {<<>>, <<"0">>, <<"2">>, <<"x">>},
                  hasEquity : {<<"t", "r", "u", "e">>, <<"f", "a", "l", "s", "e">>,
                               <<"1">>},
                  other : {<<"1">>}]}

\* the query strings sent to GET /companies
CompanyQueries ==
    {[k \in D |-> full[k]] :
        D \in SUBSET {"name", "minEmployees", "maxEmployees"},
        full \in [name : {<<"a">>, <<"x">>},
                  minEmployees : {<<>>, <<"0">>, <<"1">>, <<"2">>, <<"1", "0">>, <<"x">>},
                  maxEmployees : {<<>>, <<"0">>, <<"1">>, <<"2">>, <<"x">>}]}

ListHeaders == {NoHeader, Credential("u1", "false", SECRET_KEY)}

ListRequest(route, header, query) ==
    [route |-> route, header |-> header, query |-> query]

InitList ==
    /\ req = ListRequest("none", NoHeader, <<>>)
    /\ locals = EmptyLocals
    /\ pc = 0
    /\ ran = <<>>
    /\ nextArg = "none"
    /\ raised = "none"
    /\ status = 0
    /\ jobs \in {t \in JobTables : Cardinality(DOMAIN t) <= 1}
    /\ companies \in CompanyTables
    /\ DOMAIN jobs # {} => "c1" \in DOMAIN companies
    /\ nextId = Cardinality(DOMAIN jobs) + 1
    /\ call = NoCall
    /\ ret = NoRet

\* a listing request arrives: it gets a res.locals of its own
ReceiveList ==
    /\ pc = 0
    /\ \E h \in ListHeaders :
        \/ \E q \in JobQueries : req' = ListRequest("GET /jobs", h, q)
        \/ \E q \in CompanyQueries : req' = ListRequest("GET /companies", h, q)
    /\ locals' = EmptyLocals
    /\ pc' = 1
    /\ ran' = <<>>
    /\ nextArg' = "none"
    /\ raised' = "none"
    /\ status' = 0
    /\ call' = NoCall
    /\ ret' = NoRet
    /\ UNCHANGED <<jobs, nextId, companies>>

\* the handler answers: res.json on success, next(err) and the error
\* handler's status otherwise
Answer(h) ==
    /\ nextArg' = h.error
    /\ status' = IF h.error = "none" THEN 200 ELSE StatusOf(h.error)
    /\ ran' = Append(ran, "handler")
    /\ pc' = 0
    /\ call' = h.call
    /\ ret' = h.ret
    /\ UNCHANGED <<req, locals, raised, jobs, nextId, companies>>

GetJobs ==
    /\ AtHandler("GET /jobs")
    /\ \E data \in JobFindAll(store) : Answer(getJobs(req.query, data))

GetCompanies ==
    /\ AtHandler("GET /companies")
    /\ \E data \in CompanyFindAll(store) : Answer(getCompanies(req.query, data))

NextList ==
    \/ ReceiveList
    \/ StepGate
    \/ GetJobs
    \/ GetCompanies

SpecList == InitList /\ [][NextList]_vars

\* the handler of the route has answered the request in req
Answered(route) == pc = 0 /\ req.route = route /\ ran # <<>> /\ Last(ran) = "handler"

(***************************************************************************)
(* Claims about the listing routes                                         *)
(***************************************************************************)

\* C23: GET /companies answers 400 (BadRequest), without calling
\* Company.filterCompanies, every query in which minEmployees and
\* maxEmployees are both supplied and minEmployees is greater than or equal
\* to maxEmployees.
C23_MinNotBelowMaxIsBadRequest ==
    (/\ Answered("GET /companies")
     /\ "minEmployees" \in DOMAIN req.query
     /\ "maxEmployees" \in DOMAIN req.query
     /\ IsNum(Number(req.query.minEmployees))
     /\ IsNum(Number(req.query.maxEmployees))
     /\ Number(req.query.minEmployees).num >= Number(req.query.maxEmployees).num) =>
        /\ status = 400
        /\ nextArg = "BadRequestError"
        /\ call.fn # "Company.filterCompanies"

(***************************************************************************)
(* Further claims about the middleware                                     *)
(***************************************************************************)

\* C24: a validly signed token is accepted, and the identity slot populated
\* with its payload, whatever the letter case of the scheme word in front
\* of it ("Bearer", "bearer", "BEARER").
C24_SchemeAnyCase ==
    (/\ JustRan("authenticateJWT")
     /\ req.header.kind = "value"
     /\ req.header.scheme \in {"Bearer ", "bearer ", "BEARER "}
     /\ req.header.token.wellFormed
     /\ req.header.token.key = SECRET_KEY
     /\ ~req.header.token.expired) =>
        /\ HasUser(locals)
        /\ locals.user = Payload(req.header.token)

RECURSIVE RunChain(_, _, _)
\* the gates of chain run in turn on res.locals l: "none" when each called
\* next(), the error of the first that called next(err) otherwise
RunChain(chain, r, l) ==
    IF chain = <<>> THEN "none"
    ELSE LET out == Gate(Head(chain), r, l)
         IN  IF out.nextArg # "none" THEN out.nextArg
             ELSE RunChain(Tail(chain), r, out.locals)

\* C25: the outcome of a gate chain does not depend on the order of its
\* gates: on every identity slot, ensureLoggedIn then ensureAdmin and
\* ensureAdmin then ensureLoggedIn both pass, or both fail with the same
\* kind of failure.
C25_GateOrderIrrelevant ==
    RunChain(<<"ensureLoggedIn", "ensureAdmin">>, req, locals)
        = RunChain(<<"ensureAdmin", "ensureLoggedIn">>, req, locals)

(***************************************************************************)
(* A further claim about Job.update                                        *)
(***************************************************************************)

\* C26: in the statement Job.update sends, the id placeholder is numbered
\* len(values) + 1 and the id is the last parameter, so the placeholders
\* used are exactly $1..$(n+1), each bound to one parameter, and the id
\* placeholder is none of the SET placeholders.
C26_IdPlaceholderIsLast ==
    (Returned("Job.update") /\ Len(call.data) > 0) =>
        /\ Len(ret.sent) = 1
        /\ LET st == ret.sent[1]
               n == Len(call.data)
               SetPlaceholders == {st.setCols[i].placeholder : i \in 1..Len(st.setCols)}
           IN  /\ Len(st.setCols) = n
               /\ st.whereIdx = n + 1
               /\ Len(st.params) = n + 1
               /\ st.params[n + 1] = call.id
               /\ \A i \in 1..n : st.params[i] = call.data[i].value
               /\ SetPlaceholders = 1..n
               /\ SetPlaceholders \cup {st.whereIdx} = 1..Len(st.params)
               /\ st.whereIdx \notin SetPlaceholders

\* Job.update(1, {salary: 2, equity: "0.9"}) sent SET ... $1, ... $2
\* WHERE id = $3 with the id as third parameter
C26_Witness ==
    /\ Returned("Job.update")
    /\ call.id = 1
    /\ call.data = <<[key |-> "salary", value |-> 2],
                     [key |-> "equity", value |-> "0.9"]>>
    /\ ret.error = "none"
    /\ ret.sent[1].whereIdx = 3
    /\ ret.sent[1].params[3] = 1

(***************************************************************************)
(* Several requests in flight at once: each has its req and its res, the   *)
(* middleware of one request run between the middleware of the others      *)
(***************************************************************************)
MaxRequests == 2

Requests == 1..MaxRequests

\* the chains declared behind authenticateJWT: the mutating routes' and the
\* one of a route that belongs to a user
GateChains ==
    {<<"ensureLoggedIn", "ensureAdmin">>, <<"ensureLoggedIn", "ensureAdminOrUser">>}

ConcHeaders ==
    {NoHeader,
     Credential("u2", "true", SECRET_KEY),
     Credential("u1", "false", SECRET_KEY),
     Credential("u2", "true", "wrong")}

ConcRequests == [header : ConcHeaders, username : {"u1", "u2"}, chain : GateChains]

\* one res.locals is read by the middleware of every request
SlotOf_Shared(allLocals, i) == allLocals[1]

\* res.locals of request i: the middleware is handed the res of its request
SlotOf(allLocals, i) == allLocals[i]

InitConc ==
    /\ req \in [Requests -> ConcRequests]
    /\ locals = [i \in Requests |-> EmptyLocals]
    /\ pc = [i \in Requests |-> 1]
    /\ ran = [i \in Requests |-> <<>>]
    /\ nextArg = [i \in Requests |-> "none"]
    /\ raised = [i \in Requests |-> "none"]
    /\ status = [i \in Requests |-> 0]
    /\ jobs = InitJobs
    /\ nextId = 2
    /\ companies = InitCompanies
    /\ call = NoCall
    /\ ret = NoRet

\* the next middleware of request i runs: next() goes on to the one after
\* it (the handler after the last), next(err) answers the request
StepConc(i) ==
    LET pipeline == <<"authenticateJWT">> \o req[i].chain
    IN  /\ pc[i] \in 1..Len(pipeline)
        /\ LET out == Gate(pipeline[pc[i]], req[i], SlotOf(locals, i))
           IN  /\ locals' = [locals EXCEPT ![i] = out.locals]
               /\ nextArg' = [nextArg EXCEPT ![i] = out.nextArg]
               /\ raised' = [raised EXCEPT ![i] = out.raised]
               /\ ran' = [ran EXCEPT ![i] = Append(ran[i], pipeline[pc[i]])]
               /\ pc' = [pc EXCEPT ![i] = IF out.nextArg = "none" THEN pc[i] + 1 ELSE 0]
               /\ status' = [status EXCEPT
                                ![i] = IF out.nextArg = "none" THEN 0
                                       ELSE StatusOf(out.nextArg)]
        /\ UNCHANGED <<req, jobs, nextId, companies, call, ret>>

NextConc == \E i \in Requests : StepConc(i)

SpecConc == InitConc /\ [][NextConc]_vars

RECURSIVE Alone(_, _, _)
\* the middleware in gates run on request r by itself, from res.locals l:
\* the res.locals left and the argument of the last next
Alone(gates, r, l) ==
    IF gates = <<>> THEN [locals |-> l, nextArg |-> "none"]
    ELSE LET out == Gate(Head(gates), r, l)
         IN  IF Len(gates) = 1 \/ out.nextArg # "none"
             THEN [locals |-> out.locals, nextArg |-> out.nextArg]
             ELSE Alone(Tail(gates), r, out.locals)

\* C27: when several requests are processed interleaved, the decision of
\* every gate for a request depends only on that request's own credential
\* and path parameter: what its middleware decided and left in its identity
\* slot is what they decide when the request is processed alone, and a
\* populated slot holds the identity of the request's own token.
C27_RequestsIndependent ==
    \A i \in Requests :
        /\ nextArg[i] = Alone(ran[i], req[i], EmptyLocals).nextArg
        /\ locals[i] = Alone(ran[i], req[i], EmptyLocals).locals
        /\ HasUser(locals[i]) => locals[i].user = Payload(req[i].header.token)

\* request 1 of an administrator has passed its gates while request 2, with
\* no token, sent in between, was refused by ensureLoggedIn
C27_Witness ==
    /\ req[1].header = Credential("u2", "true", SECRET_KEY)
    /\ req[2].header = NoHeader
    /\ ran[1] = <<"authenticateJWT", "ensureLoggedIn", "ensureAdmin">>
    /\ nextArg[1] = "none"
    /\ HasUser(locals[1])
    /\ ran[2] = <<"authenticateJWT", "ensureLoggedIn">>
    /\ nextArg[2] = "UnauthorizedError"
    /\ ~HasUser(locals[2])

(***************************************************************************)
(* A further claim about the listing routes                                *)
(***************************************************************************)

\* C28: the empty-result NotFound policy applies only to filtered listings:
\* GET /jobs with an empty query string answers with success and the full
\* list of Job.findAll, even when that list is empty, and NotFound is the
\* answer only when the query string has at least one key.
C28_NotFoundOnlyWhenFiltered ==
    Answered("GET /jobs") =>
        /\ DOMAIN req.query = {} =>
               /\ status = 200
               /\ nextArg = "none"
               /\ call.fn = "Job.findAll"
               /\ Len(ret.rows) = Cardinality(DOMAIN jobs)
               /\ \A k \in DOMAIN jobs :
                      \E i \in 1..Len(ret.rows) : ret.rows[i] = JobOf(jobs[k])
        /\ (status = 404 \/ nextArg = "NotFoundError") =>
               /\ DOMAIN req.query # {}
               /\ call.fn = "Job.filterJobs"

\* GET /jobs with no query string was answered 200 with the empty list
C28_Witness ==
    /\ Answered("GET /jobs")
    /\ DOMAIN req.query = {}
    /\ DOMAIN jobs = {}
    /\ status = 200
    /\ ret.rows = <<>>

(***************************************************************************)
(* The middleware called with a continuation that may throw: which calls   *)
(* of next an invocation makes                                             *)
(***************************************************************************)

\* the body of the try block threw before it reached "return next()"
ThrewInTry(name, r, l) ==
    IF name = "authenticateJWT"
    THEN r.header.kind = "value" /\ ~jwtVerifies(StripBearer(r.header), SECRET_KEY)
    ELSE Gate(name, r, l).nextArg # "none"

\* One invocation of a middleware with a next that throws at the calls
\* numbered in throwsOn: the arguments of the calls of next it makes, in
\* order, and the error that leaves the middleware. A throw of the next()
\* inside the try block is caught by the middleware's own catch, which
\* calls next again: next() in authenticateJWT, next(err) in the others.
Invoke(name, r, l, throwsOn) ==
    LET out == Gate(name, r, l)
    IN  IF 1 \notin throwsOn
        THEN [calls |-> <<out.nextArg>>, raised |-> out.raised, locals |-> out.locals]
        ELSE IF ThrewInTry(name, r, l)
        THEN [calls |-> <<out.nextArg>>, raised |-> "ContinuationError",
              locals |-> out.locals]
        ELSE [calls |-> <<out.nextArg,
                          IF name = "authenticateJWT" THEN "none"
                          ELSE "ContinuationError">>,
              raised |-> IF 2 \in throwsOn THEN "ContinuationError" ELSE "none",
              locals |-> out.locals]

InitNext ==
    /\ req \in AuthRequests
    /\ locals \in {EmptyLocals, authenticateJWT(req, EmptyLocals).locals}
    /\ pc = 0
    /\ ran = <<>>
    /\ nextArg = "none"
    /\ raised = "none"
    /\ status = 0
    /\ jobs = InitJobs
    /\ nextId = 2
    /\ companies = InitCompanies
    /\ call \in [fn : {"authenticateJWT", "ensureLoggedIn", "ensureAdmin",
                       "ensureAdminOrUser"},
                 throwsOn : SUBSET {1, 2}]
    /\ ret = NoRet

InvokeMiddleware ==
    /\ pc = 0
    /\ ret' = Invoke(call.fn, req, locals, call.throwsOn)
    /\ locals' = ret'.locals
    /\ nextArg' = Last(ret'.calls)
    /\ raised' = ret'.raised
    /\ ran' = Append(ran, call.fn)
    /\ pc' = 1
    /\ UNCHANGED <<req, status, jobs, nextId, companies, call>>

NextNext == InvokeMiddleware

SpecNext == InitNext /\ [][NextNext]_vars

\* C29: each of authenticateJWT, ensureLoggedIn, ensureAdmin and
\* ensureAdminOrUser calls next exactly once per invocation, with no
\* argument or with one error, in every case, the case where the
\* continuation called through next throws included.
C29_NextExactlyOnce ==
    (pc = 1 /\ ran # <<>>) => Len(ret.calls) = 1

====
